---- MODULE Spec2Model ----
(***************************************************************************)
(* Model of the x402 payment glue of the facilitator package:              *)
(*   - src/src/elysia/middleware.ts : the Elysia plugin (path candidates,  *)
(*     before-handle payment check, after-handle settlement);              *)
(*   - src/src/starknet/exact/client.ts : the exact Starknet client scheme.*)
(*                                                                         *)
(* JavaScript strings that the code inspects character by character        *)
(* (paths, route patterns) are sequences of one-character strings:         *)
(* "/a/b" is << "/", "a", "/", "b" >>.  An optional value (T | undefined)  *)
(* is a sequence of length at most one: << >> is undefined, << v >> is v.  *)
(***************************************************************************)
EXTENDS Integers, Sequences, FiniteSets, TLC

VARIABLES
    config,        \* ElysiaPaymentMiddlewareConfig given to createElysiaPaymentMiddleware
    live,          \* the requests the plugin is handling
    ctx,           \* per request: the Elysia context, the hook's position, the calls made
    pathBase,      \* expandPathCandidates: argument baseCandidates
    pathPatterns,  \* expandPathCandidates: argument routePatterns
    pathOut,       \* expandPathCandidates: << >> before the call, << result >> after
    schemes,       \* the ExactStarknetClientScheme instances built, in order
    regCalls,      \* the calls of registerExactStarknetClientScheme, in order
    pay            \* one call of ExactStarknetClientScheme.createPaymentPayload

mwVars == << config, live, ctx >>
pathVars == << pathBase, pathPatterns, pathOut >>
clientVars == << schemes, regCalls, pay >>
vars == << config, live, ctx, pathBase, pathPatterns, pathOut,
          schemes, regCalls, pay >>

(***************************************************************************)
(* Bounds of the model.                                                    *)
(***************************************************************************)
MaxCandLen == 3
MaxPatLen == 4
MaxRegisterCalls == 2

(***************************************************************************)
(* String primitives of JavaScript, on sequences of characters.            *)
(***************************************************************************)
Slash == << "/" >>

Range(s) == { s[i] : i \in 1..Len(s) }

\* String.prototype.startsWith
startsWith(s, p) == Len(p) <= Len(s) /\ SubSeq(s, 1, Len(p)) = p

\* String.prototype.slice(from) with 0 <= from
sliceFrom(s, from) == SubSeq(s, from + 1, Len(s))

\* String.prototype.slice(0, to) with 0 <= to
sliceTo(s, to) == SubSeq(s, 1, IF to < Len(s) THEN to ELSE Len(s))

\* value.replace(/\/+$/, ""): drop the run of "/" that ends the string
RECURSIVE stripTrailingSlashes(_)
stripTrailingSlashes(s) ==
    IF Len(s) > 0 /\ s[Len(s)] = "/"
    THEN stripTrailingSlashes(SubSeq(s, 1, Len(s) - 1))
    ELSE s

\* String.prototype.lastIndexOf("/"): 0-based, -1 when absent
lastIndexOfSlash(s) ==
    LET hits == { i \in 1..Len(s) : s[i] = "/" }
    IN  IF hits = {} THEN -1
        ELSE (CHOOSE i \in hits : \A j \in hits : j <= i) - 1

\* routePath.search(/\/(\*|\[)/): 0-based index of the first "/" that is
\* followed by "*" or "[", -1 when there is none
searchWildcard(s) ==
    LET hits == { i \in 1..(Len(s) - 1) :
                    s[i] = "/" /\ s[i + 1] \in { "*", "[" } }
    IN  IF hits = {} THEN -1
        ELSE (CHOOSE i \in hits : \A j \in hits : i <= j) - 1

\* A JavaScript Set keeps insertion order and ignores a value it holds.
setAdd(seq, x) == IF x \in Range(seq) THEN seq ELSE Append(seq, x)

\* new Set(array)
RECURSIVE setOf(_)
setOf(arr) ==
    IF arr = << >> THEN << >>
    ELSE setAdd(setOf(SubSeq(arr, 1, Len(arr) - 1)), arr[Len(arr)])

(***************************************************************************)
(* middleware.ts: path normalisation and candidate expansion.              *)
(***************************************************************************)
normalizePathCandidate(value) ==
    IF startsWith(value, Slash) THEN value ELSE Slash \o value

normalizePrefix(value) ==
    IF value = Slash THEN << >> ELSE stripTrailingSlashes(value)

getStaticPrefix(routePath) ==
    LET match      == searchWildcard(routePath)
        staticPath == IF match = -1 THEN routePath ELSE sliceTo(routePath, match)
        normalized == stripTrailingSlashes(normalizePathCandidate(staticPath))
        lastSlash  == lastIndexOfSlash(normalized)
    IN  IF lastSlash <= 0 THEN << >> ELSE sliceTo(normalized, lastSlash)

\* First loop of expandPathCandidates: the ordered set of non-empty prefixes.
RECURSIVE collectPrefixes(_)
collectPrefixes(routePatterns) ==
    IF routePatterns = << >> THEN << >>
    ELSE LET n       == Len(routePatterns)
             before  == collectPrefixes(SubSeq(routePatterns, 1, n - 1))
             pattern == routePatterns[n]
             prefix  == normalizePrefix(getStaticPrefix(pattern))
         IN  IF pattern = << "*" >> THEN before
             ELSE IF prefix # << >> THEN setAdd(before, prefix)
             ELSE before

\* Body of the inner loop: what one (prefix, candidate) pair adds.
expandOne(candidates, prefix, candidate) ==
    IF ~startsWith(candidate, prefix)
    THEN setAdd(candidates, normalizePathCandidate(prefix \o candidate))
    ELSE LET rest     == sliceFrom(candidate, Len(prefix))
             stripped == IF rest = << >> THEN Slash ELSE rest
         IN  setAdd(candidates, normalizePathCandidate(stripped))

\* Inner loop: every base candidate, in order, for one prefix.
RECURSIVE expandForPrefix(_, _, _, _)
expandForPrefix(candidates, prefix, baseCandidates, k) ==
    IF k > Len(baseCandidates) THEN candidates
    ELSE expandForPrefix(expandOne(candidates, prefix, baseCandidates[k]),
                         prefix, baseCandidates, k + 1)

\* Outer loop: every prefix, in order.
RECURSIVE expandForPrefixes(_, _, _, _)
expandForPrefixes(candidates, prefixes, baseCandidates, k) ==
    IF k > Len(prefixes) THEN candidates
    ELSE expandForPrefixes(
             expandForPrefix(candidates, prefixes[k], baseCandidates, 1),
             prefixes, baseCandidates, k + 1)

expandPathCandidates(baseCandidates, routePatterns) ==
    expandForPrefixes(setOf(baseCandidates), collectPrefixes(routePatterns),
                      baseCandidates, 1)

\* The characters /\s/ matches, of those a string of this module can hold:
\* space, tab, line feed, form feed, carriage return, then U+000B (line
\* tabulation), U+00A0 (no-break space), U+1680 (ogham space mark) and
\* U+FEFF (zero width no-break space) written as themselves.  The others
\* /\s/ matches (U+2000 to U+200A, U+2028, U+2029, U+202F, U+205F, U+3000)
\* cannot be written in a string of this module.
WhiteSpace ==
    { " ", "\t", "\n", "\f", "\r", "", " ", " ", "﻿" }

\* A route key splits on runs of whitespace: pattern.split(/\s+/)
RECURSIVE splitWhitespace(_)
splitWhitespace(s) ==
    LET spaces == { i \in 1..Len(s) : s[i] \in WhiteSpace }
    IN  IF spaces = {} THEN << s >>
        ELSE LET first == CHOOSE i \in spaces : \A j \in spaces : i <= j
                 after == { i \in first..Len(s) : s[i] \notin WhiteSpace }
                 resume == IF after = {} THEN Len(s) + 1
                           ELSE CHOOSE i \in after : \A j \in after : i <= j
             IN  << SubSeq(s, 1, first - 1) >>
                 \o splitWhitespace(SubSeq(s, resume, Len(s)))

\* Object.keys lists the array-index keys first, by value, then the other
\* keys as they were inserted.
Digits == << "0", "1", "2", "3", "4", "5", "6", "7", "8", "9" >>

digitValue(ch) == (CHOOSE i \in 1..Len(Digits) : Digits[i] = ch) - 1

\* a < b for digit strings of one length
digitsLess(a, b) ==
    \E i \in 1..Len(a) :
        /\ digitValue(a[i]) < digitValue(b[i])
        /\ \A j \in 1..(i - 1) : a[j] = b[j]

\* 2^32 - 2, the largest array index
MaxArrayIndex == << "4", "2", "9", "4", "9", "6", "7", "2", "9", "4" >>

\* a canonical numeric string of value at most 2^32 - 2
isArrayIndex(key) ==
    /\ Len(key) >= 1
    /\ \A i \in 1..Len(key) : key[i] \in Range(Digits)
    /\ Len(key) = 1 \/ key[1] # "0"
    /\ \/ Len(key) < Len(MaxArrayIndex)
       \/ /\ Len(key) = Len(MaxArrayIndex)
          /\ key = MaxArrayIndex \/ digitsLess(key, MaxArrayIndex)

indexLess(a, b) ==
    \/ Len(a) < Len(b)
    \/ Len(a) = Len(b) /\ digitsLess(a, b)

RECURSIVE ascending(_)
ascending(indexKeys) ==
    IF indexKeys = {} THEN << >>
    ELSE LET least == CHOOSE k \in indexKeys :
                          \A other \in indexKeys \ { k } : indexLess(k, other)
         IN  << least >> \o ascending(indexKeys \ { least })

\* inserted: the object's own keys in insertion order
objectKeys(inserted) ==
    ascending({ k \in Range(inserted) : isArrayIndex(k) })
    \o SelectSeq(inserted, LAMBDA k : ~isArrayIndex(k))

\* routes: [kind |-> "none"] (undefined), [kind |-> "single"] (one RouteConfig,
\* it has "accepts"), [kind |-> "map", keys |-> the keys in insertion order].
\* A key is split when it holds a space character (pattern.includes(" ")).
getRoutePatternPaths(routes) ==
    IF routes.kind = "none" THEN << >>
    ELSE IF routes.kind = "single" THEN << << "*" >> >>
    ELSE LET keys == objectKeys(routes.keys)
         IN  [ i \in 1..Len(keys) |->
                 LET pattern == keys[i]
                     rawPath == IF " " \in Range(pattern)
                                THEN splitWhitespace(pattern)[2]
                                ELSE pattern
                 IN  normalizePathCandidate(rawPath) ]

\* typeof v === "string" && v.length > 0, for an optional string
isNonEmptyString(opt) == Len(opt) = 1 /\ Len(opt[1]) > 0

\* getPathCandidates without the URL's pathname (line 146 left out)
getPathCandidates_WithoutPathname(request, fallback) ==
    LET c2 == setAdd(<< >>, normalizePathCandidate(fallback))
        c3 == IF isNonEmptyString(request.path)
              THEN setAdd(c2, normalizePathCandidate(request.path[1])) ELSE c2
        c4 == IF isNonEmptyString(request.route)
              THEN setAdd(c3, normalizePathCandidate(request.route[1])) ELSE c3
    IN  c4

\* request: [urlPathname, path, route]; urlPathname is resolveUrl(ctx.request).pathname
getPathCandidates(request, fallback) ==
    LET c1 == setAdd(<< >>, normalizePathCandidate(request.urlPathname))
        c2 == setAdd(c1, normalizePathCandidate(fallback))
        c3 == IF isNonEmptyString(request.path)
              THEN setAdd(c2, normalizePathCandidate(request.path[1])) ELSE c2
        c4 == IF isNonEmptyString(request.route)
              THEN setAdd(c3, normalizePathCandidate(request.route[1])) ELSE c3
    IN  c4

\* createAdapter: adapter.getPath()
adapterPath(request) ==
    IF isNonEmptyString(request.path)
    THEN normalizePathCandidate(request.path[1])
    ELSE request.urlPathname

(***************************************************************************)
(* middleware.ts: the plugin's closure values and header merging.          *)
(***************************************************************************)
\* a ?? b for an optional a
orElse(opt, default) == IF Len(opt) = 0 THEN default ELSE opt[1]

\* const autoSettle = config.autoSettle ?? true
autoSettle == orElse(config.autoSettle, TRUE)

\* const autoTrack = config.upto?.autoTrack ?? true
autoTrack ==
    IF Len(config.upto) = 0 THEN TRUE ELSE orElse(config.upto[1].autoTrack, TRUE)

\* const routePatterns = getRoutePatternPaths(config.routes)
routePatterns == getRoutePatternPaths(config.routes)

\* A Record<string, string> is a function from its keys to its values.
NoHeaders == [ k \in {} |-> "" ]

\* { ...(current ?? {}), ...next }
mergeHeaders(current, next) ==
    LET cur == orElse(current, NoHeaders)
    IN  [ k \in (DOMAIN cur) \cup (DOMAIN next) |->
            IF k \in DOMAIN next THEN next[k] ELSE cur[k] ]

(***************************************************************************)
(* What the external calls can answer (@x402/core, ../upto/lib.js).        *)
(***************************************************************************)
NoPaymentRequired == [ type |-> "no-payment-required" ]

PaymentErrors ==
    { [ type |-> "payment-error",
        response |-> [ status |-> 402,
                       headers |-> ("content-type" :> "text/html"),
                       body |-> "paywall" ] ],
      [ type |-> "payment-error",
        response |-> [ status |-> 400,
                       headers |-> ("PAYMENT-REQUIRED" :> "requirements"),
                       body |-> "invalid payment" ] ] }

PaymentVerifieds ==
    { [ type |-> "payment-verified",
        paymentPayload |-> p,
        paymentRequirements |-> [ scheme |-> s ] ] :
        p \in { "payload-1", "payload-2" }, s \in { "exact", "upto" } }

ProcessResults == { NoPaymentRequired } \cup PaymentErrors \cup PaymentVerifieds

TrackingErrors == { "cap_exhausted", "session_closed" }

TrackingResults ==
    { [ success |-> TRUE, sessionId |-> "session-1" ] }
    \cup { [ success |-> FALSE, error |-> e, sessionId |-> "session-2" ] :
             e \in TrackingErrors }

\* The tables of ../upto/lib.js, which is not among the sources: an entry is
\* known only by its key.
TRACKING_ERROR_STATUS(error) == << "TRACKING_ERROR_STATUS", error >>
TRACKING_ERROR_MESSAGES(error) == << "TRACKING_ERROR_MESSAGES", error >>

SettlementResults ==
    { [ success |-> TRUE, headers |-> ("PAYMENT-RESPONSE" :> "receipt") ],
      [ success |-> TRUE,
        headers |-> ("PAYMENT-RESPONSE" :> "receipt") @@ ("x-app" :> "settled") ],
      [ success |-> FALSE, errorReason |-> "settle failed" ] }

(***************************************************************************)
(* Inputs of a request, and the configurations of the plugin.              *)
(***************************************************************************)
Requests == { "r1", "r2" }

P_a == << "/", "a" >>
P_pa == << "/", "p", "/", "a" >>
P_pab == << "/", "p", "a", "b" >>

\* the URL's pathname always starts with "/"
UrlPathnames == { P_a, P_pa, P_pab }

\* ctx.path and ctx.route as Elysia gives them: absent, empty, or a path
\* that starts with "/"
CtxPaths == { << >>, << << >> >>, << P_pa >> }
CtxRoutes == { << >>, << << >> >>, << << "/", "p", "/", "*" >> >> }

RequestInputs ==
    [ urlPathname : UrlPathnames, path : CtxPaths, route : CtxRoutes ]

\* ctx.set when the before-handle hook starts
InitialSets ==
    { [ status |-> << >>, headers |-> << >> ],
      [ status |-> << 200 >>,
        headers |-> << ("content-type" :> "text/plain") >> ] }

\* what a route handler may do to ctx.set
HandlerHeaders ==
    { NoHeaders, ("x-app" :> "handler"), ("x-upto-session-id" :> "handler") }

RoutesPool ==
    { [ kind |-> "none" ],
      [ kind |-> "single" ],
      [ kind |-> "map",
        keys |-> << << "G", " ", "\t", "/", "p", "/", "a", "/", "b" >>,
                    << "p", "a", "/", "[" >>,
                    << "7" >> >> ] }

\* config.paywallConfig: undefined, a PaywallConfig, or a function of ctx
PaywallSources ==
    { [ kind |-> "none" ], [ kind |-> "value" ], [ kind |-> "function" ] }

\* A paywallConfig comes without routes: the candidates are then those of
\* getPathCandidates, which the ctx.path a paywallConfig function leaves
\* behind changes.
Configs ==
    { cfg \in [ routes : RoutesPool,
                paywallConfig : PaywallSources,
                autoSettle : { << >>, << TRUE >>, << FALSE >> },
                upto : { << >>, << [ autoTrack |-> << >> ] >>,
                         << [ autoTrack |-> << TRUE >> ] >>,
                         << [ autoTrack |-> << FALSE >> ] >> } ] :
        cfg.paywallConfig.kind = "none" \/ cfg.routes.kind = "none" }

\* ctx of a request the plugin has not seen yet
IdleCtx ==
    [ pc |-> "idle",
      request |-> [ urlPathname |-> Slash, path |-> << >>, route |-> << >> ],
      adapterPath |-> << >>,      \* adapter.getPath(), fixed by createAdapter
      paywallConfig |-> << >>,    \* local of onBeforeHandle
      pathCandidates |-> << >>,   \* local of onBeforeHandle
      next |-> 1,                 \* position of its for loop
      x402 |-> << >>,             \* ctx.x402
      set |-> [ status |-> << >>, headers |-> << >> ],   \* ctx.set
      returned |-> << >>,         \* what onBeforeHandle returned
      calls |-> << >>,            \* the calls made for this request, in order
      set0 |-> [ status |-> << >>, headers |-> << >> ],  \* ctx.set at the start
      setH |-> [ status |-> << >>, headers |-> << >> ],  \* ctx.set as the handler left it
      settlement |-> << >> ]      \* what processSettlement answered

(***************************************************************************)
(* onBeforeHandle (middleware.ts 279-358).                                 *)
(***************************************************************************)
\* resolvePaywallConfig: what its promise resolves to
resolvePaywallConfig(source) ==
    IF source.kind = "none" THEN << >> ELSE << "paywall-config" >>

\* what source(ctx) may leave in ctx.path: a value of CtxPaths or one more path
PaywallPathWrites == CtxPaths \cup { << P_pab >> }

\* ctx after a stretch of source(ctx), the one call that runs with this
\* request's ctx while the hook is at line 281: it may assign ctx.path and
\* ctx.route, before it returns and, when it is async, before it settles
paywallWrites(source, request) ==
    IF source.kind = "function"
    THEN { [ request EXCEPT !.path = path, !.route = route ] :
             path \in PaywallPathWrites, route \in CtxRoutes }
    ELSE { request }

\* lines 280-281: the adapter is created from ctx as the hook finds it
\* (`entry`), resolvePaywallConfig is called and source(ctx) runs until it
\* returns, leaving ctx as `request`; the hook waits for the promise
beforeHandleEnter(c, entry, request, set) ==
    [ c EXCEPT !.pc = "paywall",
               !.request = request,
               !.set = set,
               !.set0 = set,
               !.adapterPath = << adapterPath(entry) >> ]

\* line 281: the promise of resolvePaywallConfig rejects, ctx is as
\* source(ctx) left it
beforeHandleRejects(c, request) ==
    [ c EXCEPT !.pc = "failed", !.request = request ]

\* lines 281-300: the candidates from ctx as it is now and from the adapter's
\* path, result = no-payment-required
beforeHandleResume(c, request, paywall) ==
    [ c EXCEPT !.pc = "processing",
               !.request = request,
               !.paywallConfig = paywall,
               !.pathCandidates =
                   expandPathCandidates(
                       getPathCandidates(request, c.adapterPath[1]),
                       routePatterns),
               !.next = 1 ]

\* the loop breaking on a payment-error only
loopBreaks_OnErrorOnly(attempt) == attempt.type = "payment-error"

\* line 314: the loop goes on after an attempt only when it is no-payment-required
loopBreaks(attempt) == attempt.type # "no-payment-required"

\* shouldTrack without the autoTrack test of line 332
shouldTrack_IgnoresAutoTrack(result) ==
    /\ result.type = "payment-verified"
    /\ result.paymentRequirements.scheme = "upto"
    /\ Len(config.upto) = 1

\* lines 328-333: the condition for upto tracking
shouldTrack(result) ==
    /\ result.type = "payment-verified"
    /\ result.paymentRequirements.scheme = "upto"
    /\ Len(config.upto) = 1
    /\ autoTrack

processCall(candidate, paywall, attempt) ==
    [ fn |-> "processHTTPRequest", hook |-> "onBeforeHandle",
      path |-> candidate, paywallConfig |-> paywall, result |-> attempt ]

\* `answer` is << tracking >>, or << >> when trackUptoPayment threw
trackCall(result, answer) ==
    [ fn |-> "trackUptoPayment", hook |-> "onBeforeHandle",
      paymentPayload |-> result.paymentPayload,
      paymentRequirements |-> result.paymentRequirements,
      result |-> answer ]

\* lines 319-338 when trackUptoPayment throws: ctx.x402 = { result } was set,
\* the hook ends with the exception
beforeHandleTrackThrows(c, result) ==
    [ c EXCEPT !.pc = "failed",
               !.x402 = << [ result |-> result, tracking |-> << >> ] >>,
               !.calls = Append(c.calls, trackCall(result, << >>)) ]

\* beforeHandleError with the arguments of mergeHeaders swapped
beforeHandleError_ExistingHeadersWin(c, result) ==
    [ c EXCEPT !.pc = "answered",
               !.x402 = << [ result |-> result, tracking |-> << >> ] >>,
               !.set = [ status |-> << result.response.status >>,
                         headers |-> << mergeHeaders(<< result.response.headers >>,
                                            orElse(c.set.headers, NoHeaders)) >> ],
               !.returned = << result.response.body >> ]

\* lines 319-326: ctx.x402 = { result }; a payment-error answers the request
beforeHandleError(c, result) ==
    [ c EXCEPT !.pc = "answered",
               !.x402 = << [ result |-> result, tracking |-> << >> ] >>,
               !.set = [ status |-> << result.response.status >>,
                         headers |-> << mergeHeaders(c.set.headers,
                                                     result.response.headers) >> ],
               !.returned = << result.response.body >> ]

\* lines 334-357: upto tracking, its failure answers the request
beforeHandleTrack(c, result, tracking) ==
    IF ~tracking.success
    THEN [ c EXCEPT !.pc = "answered",
                    !.x402 = << [ result |-> result, tracking |-> << tracking >> ] >>,
                    !.calls = Append(c.calls, trackCall(result, << tracking >>)),
                    !.set = [ status |-> << TRACKING_ERROR_STATUS(tracking.error) >>,
                              headers |-> << mergeHeaders(c.set.headers,
                                  ("content-type" :> "application/json")) >> ],
                    !.returned = << [ error |-> tracking.error,
                                      message |-> TRACKING_ERROR_MESSAGES(tracking.error),
                                      sessionId |-> tracking.sessionId ] >> ]
    ELSE [ c EXCEPT !.pc = "handler",
                    !.x402 = << [ result |-> result, tracking |-> << tracking >> ] >>,
                    !.calls = Append(c.calls, trackCall(result, << tracking >>)),
                    !.set = [ @ EXCEPT !.headers = << mergeHeaders(c.set.headers,
                                  ("x-upto-session-id" :> tracking.sessionId)) >> ] ]

\* lines 319-320 alone: nothing to answer, nothing to track
beforeHandlePass(c, result) ==
    [ c EXCEPT !.pc = "handler",
               !.x402 = << [ result |-> result, tracking |-> << >> ] >> ]

\* One turn of the for loop (lines 302-317): processHTTPRequest answers
\* `attempt` for the next candidate and the loop goes on.
ProcessAttemptContinue(r) ==
    /\ r \in live
    /\ ctx[r].pc = "processing"
    /\ \E attempt \in ProcessResults :
         LET c    == ctx[r]
             cand == c.pathCandidates[c.next]
         IN  /\ ~loopBreaks(attempt)
             /\ c.next < Len(c.pathCandidates)
             /\ ctx' = [ ctx EXCEPT ![r] =
                           [ c EXCEPT !.next = c.next + 1,
                                      !.calls = Append(c.calls,
                                          processCall(cand, c.paywallConfig,
                                                      attempt)) ] ]
    /\ UNCHANGED << config, live, pathVars, clientVars >>

\* The last turn of the loop and the rest of the hook (lines 302-358), which
\* runs without a further await: `tracking` is what trackUptoPayment answers
\* if it is called.
ProcessAttemptFinish(r) ==
    /\ r \in live
    /\ ctx[r].pc = "processing"
    /\ \E attempt \in ProcessResults :
         LET c0   == ctx[r]
             cand == c0.pathCandidates[c0.next]
             c    == [ c0 EXCEPT !.calls = Append(c0.calls,
                                      processCall(cand, c0.paywallConfig,
                                                  attempt)) ]
         IN  /\ loopBreaks(attempt) \/ c0.next = Len(c0.pathCandidates)
             /\ \/ /\ attempt.type = "payment-error"
                   /\ ctx' = [ ctx EXCEPT ![r] = beforeHandleError(c, attempt) ]
                \/ /\ attempt.type # "payment-error"
                   /\ shouldTrack(attempt)
                   /\ \/ \E tracking \in TrackingResults :
                            ctx' = [ ctx EXCEPT ![r] =
                                       beforeHandleTrack(c, attempt, tracking) ]
                      \/ ctx' = [ ctx EXCEPT ![r] =
                                    beforeHandleTrackThrows(c, attempt) ]
                \/ /\ attempt.type # "payment-error"
                   /\ ~shouldTrack(attempt)
                   /\ ctx' = [ ctx EXCEPT ![r] = beforeHandlePass(c, attempt) ]
    /\ UNCHANGED << config, live, pathVars, clientVars >>

\* An awaited call rejects (resolvePaywallConfig at line 281 when
\* config.paywallConfig is a function that throws or whose promise rejects,
\* processHTTPRequest at line 303, processSettlement at line 377): the hook
\* ends with the exception, the hook writes nothing else.
AwaitedCallRejects(r) ==
    /\ r \in live
    /\ \/ /\ ctx[r].pc \in { "processing", "settling" }
          /\ ctx' = [ ctx EXCEPT ![r] = [ @ EXCEPT !.pc = "failed" ] ]
       \/ /\ ctx[r].pc = "paywall"
          /\ config.paywallConfig.kind = "function"
          /\ \E request \in paywallWrites(config.paywallConfig, ctx[r].request) :
               ctx' = [ ctx EXCEPT ![r] = beforeHandleRejects(ctx[r], request) ]
    /\ UNCHANGED << config, live, pathVars, clientVars >>

\* The hook starts for a request the plugin has not seen and runs to its
\* first await (lines 279-281), source(ctx) of line 223 included.
BeforeHandleStart(r) ==
    /\ r \in live
    /\ ctx[r].pc = "idle"
    /\ \E entry \in RequestInputs, set \in InitialSets :
         \E request \in paywallWrites(config.paywallConfig, entry) :
             ctx' = [ ctx EXCEPT ![r] =
                        beforeHandleEnter(ctx[r], entry, request, set) ]
    /\ UNCHANGED << config, live, pathVars, clientVars >>

\* The promise of resolvePaywallConfig resolves and the hook runs on to the
\* first processHTTPRequest call (lines 281-303).
PaywallConfigResolves(r) ==
    /\ r \in live
    /\ ctx[r].pc = "paywall"
    /\ \E request \in paywallWrites(config.paywallConfig, ctx[r].request) :
         ctx' = [ ctx EXCEPT ![r] =
                    beforeHandleResume(ctx[r], request,
                                       resolvePaywallConfig(config.paywallConfig)) ]
    /\ UNCHANGED << config, live, pathVars, clientVars >>

(***************************************************************************)
(* The framework between the hooks.                                        *)
(***************************************************************************)
\* The route handler runs (the before-handle hook returned undefined) and
\* may set a status and headers.
Handler(r) ==
    /\ r \in live
    /\ ctx[r].pc = "handler"
    /\ \E status \in { << >>, << 201 >> }, h \in HandlerHeaders :
         ctx' = [ ctx EXCEPT ![r] =
                    [ @ EXCEPT !.pc = "handled",
                               !.set = [ status |-> IF Len(status) = 0
                                                    THEN @.status ELSE status,
                                         headers |->
                                             IF DOMAIN h = {} THEN @.headers
                                             ELSE << mergeHeaders(@.headers, h) >> ] ] ]
    /\ UNCHANGED << config, live, pathVars, clientVars >>

\* The request ends without the after-handle hook (the handler threw).
HandlerThrows(r) ==
    /\ r \in live
    /\ ctx[r].pc = "handler"
    /\ ctx' = [ ctx EXCEPT ![r] = [ @ EXCEPT !.pc = "failed" ] ]
    /\ UNCHANGED << config, live, pathVars, clientVars >>

(***************************************************************************)
(* onAfterHandle (middleware.ts 360-385).                                  *)
(***************************************************************************)
\* afterHandleBranch without the autoSettle test of line 375
afterHandleBranch_IgnoresAutoSettle(state) ==
    IF Len(state) = 0 \/ state[1].result.type # "payment-verified" THEN "return"
    ELSE IF state[1].result.paymentRequirements.scheme = "upto" THEN "upto"
    ELSE "settle"

\* lines 364-375: what the hook does with ctx.x402
afterHandleBranch(state) ==
    IF Len(state) = 0 \/ state[1].result.type # "payment-verified" THEN "return"
    ELSE IF state[1].result.paymentRequirements.scheme = "upto" THEN "upto"
    ELSE IF ~autoSettle THEN "return"
    ELSE "settle"

settleCall(result) ==
    [ fn |-> "processSettlement", hook |-> "onAfterHandle",
      paymentPayload |-> result.paymentPayload,
      paymentRequirements |-> result.paymentRequirements ]

\* afterHandleUpto without the tracking.success test of line 367
afterHandleUpto_AnyTracking(c) ==
    LET tracking == c.x402[1].tracking
    IN  IF Len(tracking) = 1
        THEN [ c EXCEPT !.pc = "done",
                        !.setH = c.set,
                        !.set = [ @ EXCEPT !.headers = << mergeHeaders(c.set.headers,
                                    ("x-upto-session-id" :> tracking[1].sessionId)) >> ] ]
        ELSE [ c EXCEPT !.pc = "done", !.setH = c.set ]

\* lines 366-373: the upto branch re-states the session header
afterHandleUpto(c) ==
    LET tracking == c.x402[1].tracking
    IN  IF Len(tracking) = 1 /\ tracking[1].success
        THEN [ c EXCEPT !.pc = "done",
                        !.setH = c.set,
                        !.set = [ @ EXCEPT !.headers = << mergeHeaders(c.set.headers,
                                    ("x-upto-session-id" :> tracking[1].sessionId)) >> ] ]
        ELSE [ c EXCEPT !.pc = "done", !.setH = c.set ]

\* afterHandleSettle reading a state shared by the requests instead of the
\* request's own ctx.x402: the payment-verified result of another request
\* when there is one
afterHandleSettle_SharedState(c) ==
    LET others == { q \in live :
                      /\ Len(ctx[q].x402) = 1
                      /\ ctx[q].x402[1].result.type = "payment-verified"
                      /\ ctx[q].x402[1].result # c.x402[1].result }
        result == IF others = {} THEN c.x402[1].result
                  ELSE ctx[CHOOSE q \in others : TRUE].x402[1].result
    IN  [ c EXCEPT !.pc = "settling",
                   !.setH = c.set,
                   !.calls = Append(c.calls, settleCall(result)) ]

\* lines 377-380: the call of processSettlement, awaited
afterHandleSettle(c) ==
    [ c EXCEPT !.pc = "settling",
               !.setH = c.set,
               !.calls = Append(c.calls, settleCall(c.x402[1].result)) ]

\* afterHandleSettled with the arguments of mergeHeaders swapped
afterHandleSettled_ExistingHeadersWin(c, settlement) ==
    IF settlement.success
    THEN [ c EXCEPT !.pc = "done",
                    !.settlement = << settlement >>,
                    !.set = [ @ EXCEPT !.headers =
                                << mergeHeaders(<< settlement.headers >>,
                                       orElse(c.set.headers, NoHeaders)) >> ] ]
    ELSE [ c EXCEPT !.pc = "done", !.settlement = << settlement >> ]

\* lines 382-384: the settlement's headers, if it succeeded
afterHandleSettled(c, settlement) ==
    IF settlement.success
    THEN [ c EXCEPT !.pc = "done",
                    !.settlement = << settlement >>,
                    !.set = [ @ EXCEPT !.headers =
                                << mergeHeaders(c.set.headers, settlement.headers) >> ] ]
    ELSE [ c EXCEPT !.pc = "done", !.settlement = << settlement >> ]

\* The hook runs after the handler, and after a before-handle hook that
\* answered the request itself.
AfterHandleStart(r) ==
    /\ r \in live
    /\ ctx[r].pc \in { "handled", "answered" }
    /\ LET c      == ctx[r]
           branch == afterHandleBranch(c.x402)
       IN  \/ /\ branch = "return"
              /\ ctx' = [ ctx EXCEPT ![r] = [ c EXCEPT !.pc = "done", !.setH = c.set ] ]
           \/ /\ branch = "upto"
              /\ ctx' = [ ctx EXCEPT ![r] = afterHandleUpto(c) ]
           \/ /\ branch = "settle"
              /\ ctx' = [ ctx EXCEPT ![r] = afterHandleSettle(c) ]
    /\ UNCHANGED << config, live, pathVars, clientVars >>

\* processSettlement answers and the hook ends.
SettlementReturns(r) ==
    /\ r \in live
    /\ ctx[r].pc = "settling"
    /\ \E settlement \in SettlementResults :
         ctx' = [ ctx EXCEPT ![r] = afterHandleSettled(ctx[r], settlement) ]
    /\ UNCHANGED << config, live, pathVars, clientVars >>

MwIdle ==
    /\ config = [ routes |-> [ kind |-> "none" ], autoSettle |-> << >>, upto |-> << >> ]
    /\ live = {}
    /\ ctx = [ r \in Requests |-> IdleCtx ]

Next ==
    \E r \in Requests :
        \/ BeforeHandleStart(r)
        \/ PaywallConfigResolves(r)
        \/ ProcessAttemptContinue(r)
        \/ ProcessAttemptFinish(r)
        \/ AwaitedCallRejects(r)
        \/ Handler(r)
        \/ HandlerThrows(r)
        \/ AfterHandleStart(r)
        \/ SettlementReturns(r)

(***************************************************************************)
(* Inputs of the path functions.                                           *)
(***************************************************************************)
CandChars == { "/", "a" }
PatChars == { "/", "a", "*", "[" }

StringsOver(chars, maxLen) ==
    UNION { [1..n -> chars] : n \in 0..maxLen }

\* Paths as getPathCandidates produces them: they start with "/".
CandidatePool ==
    { s \in StringsOver(CandChars, MaxCandLen) : startsWith(s, Slash) }

PatternPool == StringsOver(PatChars, MaxPatLen)

\* A second route pattern, to have two prefixes at work.
SecondPatterns == { << >>, << << "/", "a", "/", "a", "/", "a" >> >> }

PathIdle ==
    /\ pathBase = << >>
    /\ pathPatterns = << >>
    /\ pathOut = << >>

Expand ==
    /\ pathOut = << >>
    /\ pathOut' = << expandPathCandidates(pathBase, pathPatterns) >>
    /\ UNCHANGED << pathBase, pathPatterns, mwVars, clientVars >>

PathNext == Expand

(***************************************************************************)
(* starknet/exact/client.ts.                                               *)
(*                                                                         *)
(* A JavaScript value of unknown type is [kind |-> k]: "undefined" (also a *)
(* missing property), "null", "array", "object", "function", or a          *)
(* primitive "string", "number", "boolean", "bigint", "symbol".            *)
(***************************************************************************)
JsKinds ==
    { "undefined", "null", "array", "object", "function",
      "string", "number", "boolean", "bigint", "symbol" }

JsValues == [ kind : JsKinds ]

\* the typeof operator
typeOf(v) ==
    IF v.kind \in { "null", "array", "object" } THEN "object" ELSE v.kind

\* Array.isArray
isArray(v) == v.kind = "array"

\* assertStarknetTypedData without the Array.isArray test
assertStarknetTypedData_ArraysPass(payload) ==
    LET typedData == payload.typedData
    IN  typeOf(typedData) = "object" /\ typedData.kind # "null"

\* lines 51-54: TRUE when assertStarknetTypedData returns, FALSE when it throws
assertStarknetTypedData(payload) ==
    LET typedData == payload.typedData
    IN  typeOf(typedData) = "object" /\ typedData.kind # "null" /\ ~isArray(typedData)

MissingTypedData == "Starknet payment payload missing typedData (required)."

StarknetNetworks == { "starknet:mainnet", "starknet:sepolia" }

DEFAULT_STARKNET_CLIENT_NETWORKS == << "starknet:mainnet", "starknet:sepolia" >>

\* x402-starknet's table of paymaster endpoints: an entry is known by its key
DEFAULT_PAYMASTER_ENDPOINTS(network) == << "DEFAULT_PAYMASTER_ENDPOINTS", network >>

\* An override is [kind |-> "undefined"], [kind |-> "string", value |-> s] or
\* [kind |-> "map", map |-> a function from some networks to strings].
resolvePaymasterEndpoint(network, override) ==
    IF override.kind = "string" THEN override.value
    ELSE IF override.kind = "map" /\ network \in DOMAIN override.map
            /\ override.map[network] # ""
         THEN override.map[network]
    ELSE DEFAULT_PAYMASTER_ENDPOINTS(network)

\* << >> is undefined
resolvePaymasterApiKey(network, override) ==
    IF override.kind = "string" THEN << override.value >>
    ELSE IF override.kind = "map" /\ network \in DOMAIN override.map
         THEN << override.map[network] >>
    ELSE << >>

\* lines 120-124: the options given to the library; apiKey only when truthy
paymasterOptions(network, endpoint, apiKey) ==
    [ endpoint |-> endpoint,
      network |-> network,
      apiKey |-> IF Len(apiKey) = 1 /\ apiKey[1] # "" THEN apiKey ELSE << >> ]

\* lines 129-134: the value createPaymentPayload returns
paymentPayloadResult(x402Version, paymentPayload, paymasterEndpoint) ==
    [ x402Version |-> x402Version,
      payload |-> paymentPayload.payload,
      typedData |-> paymentPayload.typedData,
      paymasterEndpoint |-> orElse(paymentPayload.paymasterEndpoint, paymasterEndpoint) ]

Overrides ==
    { [ kind |-> "undefined" ],
      [ kind |-> "string", value |-> "custom" ],
      [ kind |-> "string", value |-> "" ],
      [ kind |-> "map", map |-> ("starknet:sepolia" :> "sepolia-custom") ] }

\* ExactStarknetClientSchemeConfig with an account
SchemeConfigs ==
    [ account : { << "account" >> },
      paymasterEndpoint : Overrides,
      paymasterApiKey : Overrides ]

\* what x402-starknet's createPaymentPayload can build
BuiltPayloads ==
    [ x402Version : { 1, 2 },
      payload : { "signed" },
      typedData : JsValues,
      paymasterEndpoint : { << >>, << "built-endpoint" >> } ]

IdlePay ==
    [ pc |-> "idle",
      scheme |-> [ account |-> << >>,
                   paymasterEndpoint |-> [ kind |-> "undefined" ],
                   paymasterApiKey |-> [ kind |-> "undefined" ] ],
      x402Version |-> 0,
      network |-> "",
      libraryCall |-> << >>,   \* the arguments given to the library
      built |-> << >>,         \* what the library built
      result |-> << >>,        \* the value the promise resolved to
      error |-> << >> ]        \* the error it rejected with

\* lines 106-125: up to the awaited call of the library.  validateNetwork
\* (x402-starknet) throws on a network that is not a Starknet one.
CreatePaymentPayloadCall ==
    /\ pay.pc = "ready"
    /\ \E x402Version \in { 1, 2 },
          network \in StarknetNetworks \cup { "eip155:8453" } :
         IF network \notin StarknetNetworks
         THEN pay' = [ pay EXCEPT !.pc = "rejected",
                                  !.x402Version = x402Version,
                                  !.network = network,
                                  !.error = << "validateNetwork" >> ]
         ELSE LET endpoint == resolvePaymasterEndpoint(network,
                                  pay.scheme.paymasterEndpoint)
                  apiKey   == resolvePaymasterApiKey(network,
                                  pay.scheme.paymasterApiKey)
              IN  pay' = [ pay EXCEPT
                             !.pc = "building",
                             !.x402Version = x402Version,
                             !.network = network,
                             !.libraryCall =
                                 << [ account |-> pay.scheme.account[1],
                                      x402Version |-> x402Version,
                                      options |-> paymasterOptions(network,
                                                      endpoint, apiKey) ] >> ]
    /\ UNCHANGED << schemes, regCalls, mwVars, pathVars >>

\* lines 127-135: the library built a payload
LibraryBuilds ==
    /\ pay.pc = "building"
    /\ \E built \in BuiltPayloads :
         IF assertStarknetTypedData(built)
         THEN pay' = [ pay EXCEPT
                         !.pc = "resolved",
                         !.built = << built >>,
                         !.result = << paymentPayloadResult(pay.x402Version, built,
                                          pay.libraryCall[1].options.endpoint) >> ]
         ELSE pay' = [ pay EXCEPT !.pc = "rejected",
                                  !.built = << built >>,
                                  !.error = << MissingTypedData >> ]
    /\ UNCHANGED << schemes, regCalls, mwVars, pathVars >>

\* the library threw: the rejection goes to the caller
LibraryThrows ==
    /\ pay.pc = "building"
    /\ pay' = [ pay EXCEPT !.pc = "rejected", !.error = << "createPaymentPayload" >> ]
    /\ UNCHANGED << schemes, regCalls, mwVars, pathVars >>

PayNext == CreatePaymentPayloadCall \/ LibraryBuilds \/ LibraryThrows

(***************************************************************************)
(* registerExactStarknetClientScheme (client.ts 142-159).                  *)
(*                                                                         *)
(* networks is [kind |-> "undefined"], [kind |-> "one", id |-> n] or       *)
(* [kind |-> "array", items |-> a sequence of network ids].                *)
(***************************************************************************)
\* registerNetworks that takes only the first network of an array
registerNetworks_FirstOfArray(networks) ==
    IF networks.kind = "array"
    THEN (IF Len(networks.items) = 0 THEN << >> ELSE << networks.items[1] >>)
    ELSE IF networks.kind = "one" /\ networks.id # "" THEN << networks.id >>
    ELSE DEFAULT_STARKNET_CLIENT_NETWORKS

\* lines 148-152
registerNetworks(networks) ==
    IF networks.kind = "array" THEN networks.items
    ELSE IF networks.kind = "one" /\ networks.id # "" THEN << networks.id >>
    ELSE DEFAULT_STARKNET_CLIENT_NETWORKS

\* lines 93-96: the constructor throws without an account
constructorThrows(schemeConfig) == Len(schemeConfig.account) = 0

NetworksArgs ==
    { [ kind |-> "undefined" ] }
    \cup { [ kind |-> "one", id |-> n ] : n \in StarknetNetworks }
    \cup { [ kind |-> "array", items |-> items ] :
             items \in { << >>,
                         << "starknet:sepolia" >>,
                         << "starknet:sepolia", "starknet:mainnet" >>,
                         << "starknet:mainnet", "starknet:mainnet" >> } }

RegisterConfigs ==
    { [ account |-> a, paymasterEndpoint |-> e, paymasterApiKey |-> [ kind |-> "undefined" ] ] :
        a \in { << >>, << "account" >> },
        e \in { [ kind |-> "undefined" ], [ kind |-> "string", value |-> "custom" ] } }

\* One call: the instance is schemes[id]; client.register is called once per
\* network of registerNetworks, in order, with that instance.
registerExactStarknetClientScheme(networks, schemeConfig) ==
    IF constructorThrows(schemeConfig)
    THEN /\ regCalls' = Append(regCalls,
                          [ networks |-> networks, threw |-> TRUE,
                            created |-> << >>, registered |-> << >>,
                            returned |-> << >> ])
         /\ UNCHANGED schemes
    ELSE LET id   == Len(schemes) + 1
             nets == registerNetworks(networks)
         IN  /\ schemes' = Append(schemes, schemeConfig)
             /\ regCalls' = Append(regCalls,
                              [ networks |-> networks, threw |-> FALSE,
                                created |-> << id >>,
                                registered |-> [ i \in 1..Len(nets) |->
                                                   [ network |-> nets[i], scheme |-> id ] ],
                                returned |-> << id >> ])

Register ==
    /\ Len(regCalls) < MaxRegisterCalls
    /\ \E networks \in NetworksArgs, schemeConfig \in RegisterConfigs :
         registerExactStarknetClientScheme(networks, schemeConfig)
    /\ UNCHANGED << pay, mwVars, pathVars >>

RegNext == Register

ClientIdle ==
    /\ schemes = << >>
    /\ regCalls = << >>
    /\ pay = IdlePay

Init ==
    /\ config \in Configs
    /\ live = { "r1" }
    /\ ctx = [ r \in Requests |-> IdleCtx ]
    /\ PathIdle
    /\ ClientIdle

\* The plugin serving a request.
Spec == Init /\ [][Next]_vars

InitPaths ==
    /\ pathBase \in { << c >> : c \in CandidatePool }
                    \cup { << c, d >> : c \in CandidatePool, d \in CandidatePool }
    /\ pathPatterns \in { << p >> \o q : p \in PatternPool, q \in SecondPatterns }
    /\ pathOut = << >>
    /\ MwIdle
    /\ ClientIdle

\* expandPathCandidates on its own.
SpecPaths == InitPaths /\ [][PathNext]_vars

InitPay ==
    /\ pay \in { [ IdlePay EXCEPT !.pc = "ready", !.scheme = sc ] : sc \in SchemeConfigs }
    /\ schemes = << >>
    /\ regCalls = << >>
    /\ MwIdle
    /\ PathIdle

\* createPaymentPayload on a scheme that was constructed with an account.
SpecPay == InitPay /\ [][PayNext]_vars

InitReg ==
    /\ ClientIdle
    /\ MwIdle
    /\ PathIdle

\* registerExactStarknetClientScheme, called up to MaxRegisterCalls times.
SpecReg == InitReg /\ [][RegNext]_vars

(***************************************************************************)
(* Two requests in flight at once.  Their hooks interleave at every await; *)
(* the inputs are a part of those of Spec, to keep the product finite.     *)
(***************************************************************************)
ConcConfigs ==
    { cfg \in Configs :
        /\ cfg.routes.kind = "none"
        /\ cfg.paywallConfig.kind = "value"
        /\ cfg.autoSettle \in { << >>, << FALSE >> }
        /\ cfg.upto \in { << >>, << [ autoTrack |-> << >> ] >> } }

\* two candidates per request: the pathname and ctx.path
ConcRequestInputs ==
    { [ urlPathname |-> P_a, path |-> << P_pa >>, route |-> << >> ] }

ConcProcessResults ==
    { NoPaymentRequired } \cup PaymentVerifieds
    \cup { e \in PaymentErrors : e.response.status = 402 }

\* the part of the inputs a request of SpecConc draws from
ConcInputs(c) ==
    /\ c.pc # "idle" =>
         /\ c.request \in ConcRequestInputs
         /\ Len(c.set0.headers) = 0
    /\ \A i \in 1..Len(c.calls) :
           /\ c.calls[i].fn = "processHTTPRequest"
                => c.calls[i].result \in ConcProcessResults
           /\ c.calls[i].fn = "trackUptoPayment"
                => \/ Len(c.calls[i].result) = 0
                   \/ c.calls[i].result[1].sessionId = "session-1"
                   \/ c.calls[i].result[1].error = "cap_exhausted"
    /\ Len(c.settlement) = 1 =>
         \/ ~c.settlement[1].success
         \/ DOMAIN c.settlement[1].headers = { "PAYMENT-RESPONSE" }

\* the part of the handler's writes a request of SpecConc draws from: the
\* status is left alone, the headers are left alone or get x-app
ConcHandler(before, after) ==
    /\ after.set.status = before.set.status
    /\ \/ after.set.headers = before.set.headers
       \/ "x-app" \in DOMAIN orElse(after.set.headers, NoHeaders)

InitConc ==
    /\ config \in ConcConfigs
    /\ live = Requests
    /\ ctx = [ r \in Requests |-> IdleCtx ]
    /\ PathIdle
    /\ ClientIdle

NextConc ==
    \E r \in Requests :
        \/ BeforeHandleStart(r) /\ ConcInputs(ctx'[r])
        \/ PaywallConfigResolves(r) /\ ConcInputs(ctx'[r])
        \/ ProcessAttemptContinue(r) /\ ConcInputs(ctx'[r])
        \/ ProcessAttemptFinish(r) /\ ConcInputs(ctx'[r])
        \/ AwaitedCallRejects(r)
        \/ Handler(r) /\ ConcHandler(ctx[r], ctx'[r])
        \/ HandlerThrows(r)
        \/ AfterHandleStart(r)
        \/ SettlementReturns(r) /\ ConcInputs(ctx'[r])

\* The plugin serving the requests of Requests concurrently.
SpecConc == InitConc /\ [][NextConc]_vars

(***************************************************************************)
(* Properties.  Helpers that read the per-request record.                  *)
(***************************************************************************)
\* the calls of one external function made for a request, in order
CallsOf(c, fn) == SelectSeq(c.calls, LAMBDA call : call.fn = fn)

\* the before-handle hook of the request has ended and ctx.x402 is set
BeforeEnded(c) ==
    c.pc \notin { "idle", "paywall", "processing" } /\ Len(c.x402) = 1

\* the hook got as far as computing its candidates (lines 285-288)
CandidatesComputed(c) ==
    /\ c.pc \notin { "idle", "paywall" }
    /\ c.pc = "failed" => Len(c.pathCandidates) > 0

\* the result of the last processHTTPRequest call of the request
LastAttempt(c) ==
    LET attempts == CallsOf(c, "processHTTPRequest")
    IN  attempts[Len(attempts)].result

Last(seq) == seq[Len(seq)]

\* C1: processSettlement is called at most once per request, only from the
\* after-handle hook, only after the before-handle hook has ended, and only
\* when that hook ended on a payment-verified result whose scheme is not
\* "upto" while config.autoSettle is not false; never for a request whose
\* result is no-payment-required or payment-error.
C1_SettlementOnlyAfterVerified ==
    \A r \in Requests :
        LET c       == ctx[r]
            settles == CallsOf(c, "processSettlement")
        IN  /\ Len(settles) <= 1
            /\ Len(settles) = 1 =>
                 /\ settles[1].hook = "onAfterHandle"
                 /\ c.pc \in { "settling", "done", "failed" }
                 /\ Last(c.calls).fn = "processSettlement"
                 /\ LastAttempt(c).type = "payment-verified"
                 /\ LastAttempt(c).paymentRequirements.scheme # "upto"
                 /\ config.autoSettle # << FALSE >>
            /\ ~BeforeEnded(c) => Len(settles) = 0

C1_Witness ==
    \E r \in Requests :
        /\ ctx[r].pc = "done"
        /\ Len(CallsOf(ctx[r], "processSettlement")) = 1
        /\ config.autoSettle = << >>

\* C2: a request goes on as no-payment-required only if processHTTPRequest
\* answered no-payment-required for every path candidate; the candidates
\* include the URL's pathname, ctx.path and ctx.route (each when a non-empty
\* string); so a request whose pathname got another answer never goes on
\* as no-payment-required.
C2_PassOnlyIfEveryCandidateFree ==
    \A r \in Requests :
        LET c        == ctx[r]
            attempts == CallsOf(c, "processHTTPRequest")
        IN  /\ CandidatesComputed(c) =>
                 /\ c.request.urlPathname \in Range(c.pathCandidates)
                 /\ isNonEmptyString(c.request.path)
                      => c.request.path[1] \in Range(c.pathCandidates)
                 /\ isNonEmptyString(c.request.route)
                      => c.request.route[1] \in Range(c.pathCandidates)
            /\ (BeforeEnded(c) /\ c.x402[1].result.type = "no-payment-required") =>
                 /\ \A cand \in Range(c.pathCandidates) :
                        \E i \in 1..Len(attempts) :
                            /\ attempts[i].path = cand
                            /\ attempts[i].result.type = "no-payment-required"
                 /\ \A i \in 1..Len(attempts) :
                        attempts[i].result.type = "no-payment-required"
            /\ (\E i \in 1..Len(attempts) :
                    /\ attempts[i].path = c.request.urlPathname
                    /\ attempts[i].result.type # "no-payment-required")
                 => /\ c.pc # "processing"
                    /\ Len(c.x402) = 1
                    /\ c.x402[1].result.type # "no-payment-required"
                    /\ c.pc \in { "handler", "handled" }
                         => c.x402[1].result.type = "payment-verified"

C2_Witness ==
    \E r \in Requests :
        /\ ctx[r].pc = "handled"
        /\ ctx[r].x402[1].result.type = "no-payment-required"
        /\ Len(ctx[r].pathCandidates) >= 4
        /\ isNonEmptyString(ctx[r].request.path)
        /\ isNonEmptyString(ctx[r].request.route)

\* C3: processHTTPRequest is called on the candidates in candidate order,
\* starting with the URL's pathname, and no candidate is processed after an
\* answer other than no-payment-required; that answer is ctx.x402.result.
C3_CandidatesInOrderUntilFirstHit ==
    \A r \in Requests :
        LET c        == ctx[r]
            attempts == CallsOf(c, "processHTTPRequest")
        IN  /\ CandidatesComputed(c) =>
                 c.pathCandidates[1] = c.request.urlPathname
            /\ Len(attempts) <= Len(c.pathCandidates)
            /\ \A k \in 1..Len(attempts) : attempts[k].path = c.pathCandidates[k]
            /\ \A k \in 1..(Len(attempts) - 1) :
                   attempts[k].result.type = "no-payment-required"
            /\ c.pc = "processing" =>
                 /\ Len(c.x402) = 0
                 /\ \A k \in 1..Len(attempts) :
                        attempts[k].result.type = "no-payment-required"
            /\ BeforeEnded(c) =>
                 /\ Len(attempts) >= 1
                 /\ Len(c.x402) = 1
                 /\ c.x402[1].result = Last(attempts).result
                 /\ \/ Last(attempts).result.type # "no-payment-required"
                    \/ Len(attempts) = Len(c.pathCandidates)

C3_Witness ==
    \E r \in Requests :
        LET c        == ctx[r]
            attempts == CallsOf(c, "processHTTPRequest")
        IN  /\ BeforeEnded(c)
            /\ Len(attempts) = 2
            /\ Len(c.pathCandidates) >= 4
            /\ c.x402[1].result.type = "payment-verified"

\* the response headers of a request, {} when ctx.set.headers is undefined
HeadersOf(set) == orElse(set.headers, NoHeaders)

\* `merged` is `next` laid over `current`: the keys of both, the values of
\* `next` where it has the key, those of `current` elsewhere
IsMergeOver(merged, current, next) ==
    /\ DOMAIN merged = (DOMAIN current) \cup (DOMAIN next)
    /\ \A k \in DOMAIN next : merged[k] = next[k]
    /\ \A k \in (DOMAIN current) \ (DOMAIN next) : merged[k] = current[k]

\* C4: on a payment-error result the before-handle hook answers the request:
\* the status is result.response.status, the headers are
\* result.response.headers merged over the existing ones, the body is
\* result.response.body, the handler does not run, and neither
\* trackUptoPayment nor processSettlement is ever called for the request.
C4_PaymentErrorShortCircuits ==
    \A r \in Requests :
        LET c == ctx[r]
        IN  (BeforeEnded(c) /\ LastAttempt(c).type = "payment-error") =>
                LET response == LastAttempt(c).response
                IN  /\ c.pc \in { "answered", "done" }
                    /\ c.set.status = << response.status >>
                    /\ Len(c.set.headers) = 1
                    /\ IsMergeOver(c.set.headers[1], HeadersOf(c.set0),
                                   response.headers)
                    /\ c.returned = << response.body >>
                    /\ Len(CallsOf(c, "trackUptoPayment")) = 0
                    /\ Len(CallsOf(c, "processSettlement")) = 0

C4_Witness ==
    \E r \in Requests :
        LET c == ctx[r]
        IN  /\ c.pc = "done"
            /\ LastAttempt(c).type = "payment-error"
            /\ "content-type" \in DOMAIN HeadersOf(c.set0)
            /\ "content-type" \in DOMAIN LastAttempt(c).response.headers
            /\ Len(CallsOf(c, "processHTTPRequest")) >= 2

\* the condition of C5, from the configuration as given
TrackingDue(c) ==
    /\ LastAttempt(c).type = "payment-verified"
    /\ LastAttempt(c).paymentRequirements.scheme = "upto"
    /\ Len(config.upto) = 1
    /\ config.upto[1].autoTrack # << FALSE >>

\* C5: trackUptoPayment is called exactly once per request, in the
\* before-handle hook, exactly when the result is payment-verified with
\* scheme "upto", config.upto is given and upto.autoTrack is not false;
\* otherwise it is not called and ctx.x402.tracking stays undefined.
C5_TrackExactlyWhenDue ==
    \A r \in Requests :
        LET c      == ctx[r]
            tracks == CallsOf(c, "trackUptoPayment")
        IN  /\ ~BeforeEnded(c) => Len(tracks) = 0
            /\ (BeforeEnded(c) /\ TrackingDue(c)) =>
                 /\ Len(tracks) = 1
                 /\ tracks[1].hook = "onBeforeHandle"
                 /\ tracks[1].paymentPayload = LastAttempt(c).paymentPayload
                 /\ tracks[1].paymentRequirements = LastAttempt(c).paymentRequirements
                 /\ c.x402[1].tracking = tracks[1].result
            /\ (BeforeEnded(c) /\ ~TrackingDue(c)) =>
                 /\ Len(tracks) = 0
                 /\ Len(c.x402[1].tracking) = 0

C5_Witness ==
    \E r \in Requests :
        /\ ctx[r].pc = "done"
        /\ Len(CallsOf(ctx[r], "trackUptoPayment")) = 1
        /\ config.upto[1].autoTrack = << >>

\* C6: when upto tracking fails the before-handle hook answers the request
\* with status TRACKING_ERROR_STATUS[tracking.error], content-type
\* application/json and a body of error, message and sessionId; neither hook
\* adds an x-upto-session-id header and nothing is settled.  When tracking
\* succeeds the x-upto-session-id header is tracking.sessionId at the end of
\* each hook.
C6_TrackingFailureAnswers ==
    \A r \in Requests :
        LET c == ctx[r]
        IN  (BeforeEnded(c) /\ Len(c.x402[1].tracking) = 1) =>
                LET tracking == c.x402[1].tracking[1]
                IN  IF ~tracking.success
                    THEN /\ c.pc \in { "answered", "done" }
                         /\ c.set.status = << TRACKING_ERROR_STATUS(tracking.error) >>
                         /\ IsMergeOver(c.set.headers[1], HeadersOf(c.set0),
                                        ("content-type" :> "application/json"))
                         /\ "x-upto-session-id" \notin DOMAIN c.set.headers[1]
                         /\ c.returned =
                              << [ error |-> tracking.error,
                                   message |-> TRACKING_ERROR_MESSAGES(tracking.error),
                                   sessionId |-> tracking.sessionId ] >>
                         /\ Len(CallsOf(c, "processSettlement")) = 0
                    ELSE /\ c.pc \in { "handler", "handled", "failed", "done" }
                         /\ c.pc \in { "handler", "done" } =>
                              /\ "x-upto-session-id" \in DOMAIN c.set.headers[1]
                              /\ c.set.headers[1]["x-upto-session-id"] = tracking.sessionId
                         /\ Len(c.returned) = 0
                         /\ Len(CallsOf(c, "processSettlement")) = 0

C6_Witness ==
    \E r \in Requests :
        /\ ctx[r].pc = "done"
        /\ Len(ctx[r].x402[1].tracking) = 1
        /\ ~ctx[r].x402[1].tracking[1].success

\* C9: in the after-handle hook a failed settlement leaves the status and the
\* headers as the handler produced them; a successful one leaves the status
\* and merges settlement.headers over the headers (its values win on equal
\* keys, every other header is kept).
C9_SettlementFrame ==
    \A r \in Requests :
        LET c == ctx[r]
        IN  (c.pc = "done" /\ Len(c.settlement) = 1) =>
                IF c.settlement[1].success
                THEN /\ c.set.status = c.setH.status
                     /\ Len(c.set.headers) = 1
                     /\ IsMergeOver(c.set.headers[1], HeadersOf(c.setH),
                                    c.settlement[1].headers)
                ELSE c.set = c.setH

C9_Witness ==
    \E r \in Requests :
        LET c == ctx[r]
        IN  /\ c.pc = "done"
            /\ Len(c.settlement) = 1
            /\ c.settlement[1].success
            /\ "x-app" \in DOMAIN HeadersOf(c.setH)
            /\ "x-app" \in DOMAIN c.settlement[1].headers

\* a JavaScript value that is missing, null, an array or a primitive
NotAnObject(v) ==
    v.kind \in { "undefined", "null", "array",
                 "string", "number", "boolean", "bigint", "symbol" }

\* C7: createPaymentPayload resolves only when the payload the library built
\* has a typedData that is a non-null, non-array object; when typedData is
\* missing, null, an array or a primitive it rejects with the "missing
\* typedData" error and returns nothing.  On success x402Version is the
\* argument and typedData and payload are those of the built payload.
C7_TypedDataRequired ==
    /\ pay.pc = "resolved" =>
         /\ Len(pay.built) = 1
         /\ pay.built[1].typedData.kind = "object"
         /\ Len(pay.result) = 1
         /\ Len(pay.error) = 0
         /\ pay.result[1].x402Version = pay.x402Version
         /\ pay.result[1].typedData = pay.built[1].typedData
         /\ pay.result[1].payload = pay.built[1].payload
    /\ (Len(pay.built) = 1 /\ NotAnObject(pay.built[1].typedData)) =>
         /\ pay.pc = "rejected"
         /\ pay.error = << MissingTypedData >>
         /\ Len(pay.result) = 0
    /\ Len(pay.result) = 1 => pay.pc = "resolved"

C7_Witness ==
    /\ pay.pc = "rejected"
    /\ Len(pay.built) = 1
    /\ pay.built[1].typedData.kind = "array"

\* the networks C8 expects a call to register, in order
ExpectedNetworks(networks) ==
    CASE networks.kind = "one" -> << networks.id >>
      [] networks.kind = "array" -> networks.items
      [] OTHER -> << "starknet:mainnet", "starknet:sepolia" >>

\* C8: a call of registerExactStarknetClientScheme creates exactly one scheme
\* instance and calls client.register(network, scheme) once per requested
\* network with that instance, in the order given: once for a single id,
\* once per element of an array, for starknet:mainnet then starknet:sepolia
\* when networks is omitted; it returns the registered instance.
C8_RegistersEachNetworkOnce ==
    /\ \A k \in 1..Len(regCalls) :
        LET call     == regCalls[k]
            expected == ExpectedNetworks(call.networks)
        IN  ~call.threw =>
                /\ Len(call.created) = 1
                /\ call.returned = call.created
                /\ Len(call.registered) = Len(expected)
                /\ \A i \in 1..Len(expected) :
                       /\ call.registered[i].network = expected[i]
                       /\ call.registered[i].scheme = call.created[1]
                /\ \A j \in 1..Len(regCalls) :
                       (j # k /\ ~regCalls[j].threw)
                           => regCalls[j].created # call.created
    /\ Len(schemes) = Cardinality({ k \in 1..Len(regCalls) : ~regCalls[k].threw })

C8_Witness ==
    /\ Len(regCalls) = 2
    /\ ~regCalls[1].threw
    /\ ~regCalls[2].threw
    /\ regCalls[1].networks.kind = "array"
    /\ Len(regCalls[1].networks.items) = 2
    /\ regCalls[2].networks.kind = "undefined"

\* position of the first occurrence of x in a sequence that holds it
IndexOf(seq, x) == CHOOSE i \in 1..Len(seq) : seq[i] = x /\ \A j \in 1..(i - 1) : seq[j] # x

\* the static prefixes the route patterns give
StaticPrefixes == Range(collectPrefixes(pathPatterns))

\* x is a base candidate with a prefix put in front of it
IsPrefixed(x) ==
    \E p \in StaticPrefixes, c \in Range(pathBase) :
        ~startsWith(c, p) /\ x = p \o c

\* x is what is left of a base candidate under a prefix, the prefix being
\* followed in the candidate by "/" or by the end of the path
IsStrippedAtSegment(x) ==
    \E p \in StaticPrefixes, c \in Range(pathBase) :
        \/ c = p /\ x = Slash
        \/ c = p \o x /\ startsWith(x, Slash)

\* C10 (first two parts): the result of expandPathCandidates starts with the
\* base candidates in their original order, and every candidate in it starts
\* with "/".
C10_BaseKeptAndSlashLed ==
    Len(pathOut) = 1 =>
        LET out  == pathOut[1]
            nb   == Cardinality(Range(pathBase))
        IN  /\ Len(out) >= nb
            /\ Range(SubSeq(out, 1, nb)) = Range(pathBase)
            /\ \A i, j \in 1..Len(pathBase) :
                   IndexOf(pathBase, pathBase[i]) < IndexOf(pathBase, pathBase[j])
                       => IndexOf(out, pathBase[i]) < IndexOf(out, pathBase[j])
            /\ \A i \in 1..Len(out) : startsWith(out[i], Slash)

\* C10: expandPathCandidates keeps the base candidates first and in order,
\* every candidate it returns starts with "/", and a prefix-stripped
\* candidate is added only for a base candidate that lies under a static
\* prefix as whole path segments.
C10_StripOnlyWholeSegments ==
    /\ C10_BaseKeptAndSlashLed
    /\ Len(pathOut) = 1 =>
         \A x \in Range(pathOut[1]) :
             \/ x \in Range(pathBase)
             \/ IsPrefixed(x)
             \/ IsStrippedAtSegment(x)

\* C11: under any interleaving of the hooks of concurrent requests, the
\* after-handle hook of a request reads the ctx.x402 its own before-handle
\* hook wrote: the payload and the requirements given to processSettlement
\* for a request are those of that request's own payment-verified result,
\* and ctx.x402 of a request holds the last answer that request got.
C11_SettlementUsesOwnResult ==
    \A r \in Requests :
        LET c       == ctx[r]
            settles == CallsOf(c, "processSettlement")
        IN  /\ BeforeEnded(c) => c.x402[1].result = LastAttempt(c)
            /\ \A i \in 1..Len(settles) :
                   /\ LastAttempt(c).type = "payment-verified"
                   /\ settles[i].paymentPayload = LastAttempt(c).paymentPayload
                   /\ settles[i].paymentRequirements
                        = LastAttempt(c).paymentRequirements

\* both requests await their settlement at once, with different payloads,
\* one verified on its first candidate and the other on its second
C11_Witness ==
    /\ ctx["r1"].pc = "settling"
    /\ ctx["r2"].pc = "settling"
    /\ Last(ctx["r1"].calls).paymentPayload # Last(ctx["r2"].calls).paymentPayload
    /\ Len(CallsOf(ctx["r1"], "processHTTPRequest")) = 1
    /\ Len(CallsOf(ctx["r2"], "processHTTPRequest")) = 2

====
